---- MODULE Spec2Model ----
(***************************************************************************)
(* Close-approach detection of the orbital debris visualizer:              *)
(*   CollisionDetector.findCloseApproaches / detectCollisions              *)
(*   (src/src/models/collisionDetector.js), OrbitPropagator.propagate      *)
(*   (src/src/api/orbitPropagator.js) and the POST /detect handler         *)
(*   (src/src/server/routes/collisions.js).                                *)
(*                                                                         *)
(* Dates are integers (milliseconds).  A satrec is the table of what the   *)
(* SGP4 library answers for it, one entry per second of the window: a      *)
(* state vector or an error.  Positions are in km, distances in metres.    *)
(* stepSeconds is an integer number of thousandths of a second, so that a   *)
(* step of 1.5 s is 1500; Date.setSeconds drops the fraction of a second.  *)
(***************************************************************************)
EXTENDS Integers, Sequences, FiniteSets, TLC

VARIABLES pc, detector, args, run, debris, body, res, calls, simulator, log

vars == <<pc, detector, args, run, debris, body, res, calls, simulator, log>>

\* ------------------------------------------------------------------ bounds
MaxPos == 3       \* a table entry places its object at x = 0..MaxPos km
MaxTick == 3      \* satrec tables cover the seconds 0..MaxTick
MaxStart == 1     \* objects on a line start at x = 0..MaxStart km
MaxObj == 3       \* detectCollisions gets at most MaxObj objects
MaxIds == 2       \* a request names at most MaxIds object ids
MaxRequests == 2  \* requests served by one server run

\* --------------------------------------------------------------- constants
Infinity == 999999999
DefaultThreshold == 1000
ConfigCollisionThreshold == 1000
DefaultStepSeconds == 60
DefaultRadius == 1

\* a number of seconds as a stepSeconds value of the model (thousandths)
Seconds(n) == n * 1000

\* ------------------------------------------------------------- state vectors
Vec(x, y, z) == [x |-> x, y |-> y, z |-> z]

\* what satellite.js answers: a position/velocity pair, or an error
SgpOk(p, v) == [error |-> FALSE, position |-> p, velocity |-> v]
SgpError == [error |-> TRUE]

\* satellite.js propagate(satrec, date): the satrec's answer for that second
SgpPropagate(satrec, date) == satrec[(date \div 1000) + 1]

\* a propagate that turns an error answer into a state vector at the origin
\* instead of throwing
PropagateFabricates(satrec, date) ==
  LET positionAndVelocity == SgpPropagate(satrec, date)
  IN IF positionAndVelocity.error
     THEN [threw |-> FALSE, position |-> Vec(0, 0, 0), velocity |-> Vec(0, 0, 0),
           date |-> date]
     ELSE [threw |-> FALSE,
           position |-> positionAndVelocity.position,
           velocity |-> positionAndVelocity.velocity,
           date |-> date]

\* OrbitPropagator.propagate: throws on an error answer
Propagate(satrec, date) ==
  LET positionAndVelocity == SgpPropagate(satrec, date)
  IN IF positionAndVelocity.error
     THEN [threw |-> TRUE]
     ELSE [threw |-> FALSE,
           position |-> positionAndVelocity.position,
           velocity |-> positionAndVelocity.velocity,
           date |-> date]

\* Math.sqrt on the perfect squares the model's positions produce
Sqrt(n) == CHOOSE r \in 0..n : r * r <= n /\ (r + 1) * (r + 1) > n

\* CollisionDetector.distance: km -> metres
Distance(pos1, pos2) ==
  LET dx == pos1.x - pos2.x
      dy == pos1.y - pos2.y
      dz == pos1.z - pos2.z
  IN Sqrt(dx * dx + dy * dy + dz * dz) * 1000

\* Date.getSeconds / Date.setSeconds (seconds field of the date, overflow
\* carried into the minutes)
GetSeconds(date) == (date \div 1000) % 60
SetSeconds(date, s) == date - GetSeconds(date) * 1000 + s * 1000

\* new CollisionDetector(threshold)
NewCollisionDetector(threshold) == [threshold |-> threshold]

\* ------------------------------------------------------ findCloseApproaches
BelowThresholdInclusive(this, distance) == distance <= this.threshold

\* line 47: distance < this.threshold
BelowThreshold(this, distance) == distance < this.threshold

\* the local-minimum test with a non-strict look-ahead comparison
IsMinimumNonStrict(satrec1, satrec2, endDate, stepSeconds, current, lastDistance, distance) ==
  IF ~(lastDistance > distance)
  THEN [threw |-> FALSE, value |-> FALSE]
  ELSE IF current + stepSeconds > endDate
  THEN [threw |-> FALSE, value |-> TRUE]
  ELSE LET n1 == Propagate(satrec1, current + stepSeconds)
           n2 == Propagate(satrec2, current + stepSeconds)
       IN IF n1.threw \/ n2.threw
          THEN [threw |-> TRUE]
          ELSE [threw |-> FALSE,
                value |-> Distance(n1.position, n2.position) >= distance]

\* a local-minimum test in which a failing look-ahead counts as "not a minimum"
IsMinimumSwallows(satrec1, satrec2, endDate, stepSeconds, current, lastDistance, distance) ==
  IF ~(lastDistance > distance)
  THEN [threw |-> FALSE, value |-> FALSE]
  ELSE IF current + stepSeconds > endDate
  THEN [threw |-> FALSE, value |-> TRUE]
  ELSE LET n1 == Propagate(satrec1, current + stepSeconds)
           n2 == Propagate(satrec2, current + stepSeconds)
       IN IF n1.threw \/ n2.threw
          THEN [threw |-> FALSE, value |-> FALSE]
          ELSE [threw |-> FALSE,
                value |-> Distance(n1.position, n2.position) > distance]

\* lines 48-53: isMinimum, evaluated left to right with && and || short-circuit;
\* the look-ahead propagation may throw
IsMinimum(satrec1, satrec2, endDate, stepSeconds, current, lastDistance, distance) ==
  IF ~(lastDistance > distance)
  THEN [threw |-> FALSE, value |-> FALSE]
  ELSE IF current + stepSeconds > endDate
  THEN [threw |-> FALSE, value |-> TRUE]
  ELSE LET n1 == Propagate(satrec1, current + stepSeconds)
           n2 == Propagate(satrec2, current + stepSeconds)
       IN IF n1.threw \/ n2.threw
          THEN [threw |-> TRUE]
          ELSE [threw |-> FALSE,
                value |-> Distance(n1.position, n2.position) > distance]

\* lines 56-63: the approach pushed for the current sample
Approach(current, distance, pos1, pos2) ==
  [time |-> current, distance |-> distance,
   position1 |-> pos1.position, position2 |-> pos2.position,
   velocity1 |-> pos1.velocity, velocity2 |-> pos2.velocity]

\* a catch clause that gives up the scan instead of stepping on
CatchClauseBreaks(st, stepSeconds) == [st EXCEPT !.current = Infinity]

\* lines 69-72: the catch clause only advances the scan time
CatchClause(st, stepSeconds) ==
  [st EXCEPT !.current = SetSeconds(st.current, (GetSeconds(st.current) * 1000 + stepSeconds) \div 1000)]

\* lines 40-68: the try block.  st = [current, lastDistance, approaches, visited];
\* the result is the new loop state, or threw = TRUE with st untouched.
TryBlock(this, satrec1, satrec2, endDate, stepSeconds, st) ==
  LET pos1 == Propagate(satrec1, st.current)
      pos2 == Propagate(satrec2, st.current)
  IN IF pos1.threw \/ pos2.threw
     THEN [threw |-> TRUE]
     ELSE LET distance == Distance(pos1.position, pos2.position)
              isMinimum == IF BelowThreshold(this, distance)
                           THEN IsMinimum(satrec1, satrec2, endDate, stepSeconds,
                                          st.current, st.lastDistance, distance)
                           ELSE [threw |-> FALSE, value |-> FALSE]
          IN IF isMinimum.threw
             THEN [threw |-> TRUE]
             ELSE [threw |-> FALSE,
                   st |-> [st EXCEPT
                     !.approaches = IF isMinimum.value
                                    THEN Append(@, Approach(st.current, distance, pos1, pos2))
                                    ELSE @,
                     !.lastDistance = distance,
                     !.current = SetSeconds(st.current, (GetSeconds(st.current) * 1000 + stepSeconds) \div 1000)]]

\* one iteration of the while loop; visited records the sample time of the iteration
LoopBody(this, satrec1, satrec2, endDate, stepSeconds, st) ==
  LET seen == [st EXCEPT !.visited = Append(@, st.current)]
      t == TryBlock(this, satrec1, satrec2, endDate, stepSeconds, seen)
  IN IF t.threw THEN CatchClause(seen, stepSeconds) ELSE t.st

RECURSIVE WhileLoop(_, _, _, _, _, _)
\* line 39: while (current <= endDate)
WhileLoop(this, satrec1, satrec2, endDate, stepSeconds, st) ==
  IF st.current <= endDate
  THEN WhileLoop(this, satrec1, satrec2, endDate, stepSeconds,
                 LoopBody(this, satrec1, satrec2, endDate, stepSeconds, st))
  ELSE st

\* findCloseApproaches with the trace of its loop: the final loop state.
\* line 36 copies startDate into current; startDate and endDate are the caller's
\* Date objects as the call leaves them.
FindCloseApproachesRun(this, satrec1, satrec2, startDate, endDate, stepSeconds) ==
  WhileLoop(this, satrec1, satrec2, endDate, stepSeconds,
            [current |-> startDate, lastDistance |-> Infinity,
             approaches |-> <<>>, visited |-> <<>>,
             startDate |-> startDate, endDate |-> endDate])

\* CollisionDetector.findCloseApproaches
FindCloseApproaches(this, satrec1, satrec2, startDate, endDate, stepSeconds) ==
  FindCloseApproachesRun(this, satrec1, satrec2, startDate, endDate, stepSeconds).approaches

\* --------------------------------------------------------- detectCollisions
\* lines 100-110: the collision built from one approach of the pair (i, j)
CollisionSwapped(objects, i, j, approach) ==
  [object1 |-> [noradId |-> objects[j].noradId, name |-> objects[j].name],
   object2 |-> [noradId |-> objects[i].noradId, name |-> objects[i].name],
   time |-> approach.time, distance |-> approach.distance,
   position1 |-> approach.position1, position2 |-> approach.position2,
   velocity1 |-> approach.velocity1, velocity2 |-> approach.velocity2]

Collision(objects, i, j, approach) ==
  [object1 |-> [noradId |-> objects[i].noradId, name |-> objects[i].name],
   object2 |-> [noradId |-> objects[j].noradId, name |-> objects[j].name],
   time |-> approach.time, distance |-> approach.distance,
   position1 |-> approach.position1, position2 |-> approach.position2,
   velocity1 |-> approach.velocity1, velocity2 |-> approach.velocity2]

\* the collisions of one pair, in the order of its approaches
PairCollisions(objects, i, j, approaches) ==
  [k \in 1..Len(approaches) |-> Collision(objects, i, j, approaches[k])]

InnerStartFromSelf(i) == i

\* line 90: let j = i + 1
InnerStart(i) == i + 1

\* lines 99-111: the collisions of the pair pushed after a scan that ended in
\* the loop state found
PushAll(objects, i, j, acc, found) ==
  [collisions |-> acc.collisions \o PairCollisions(objects, i, j, found.approaches),
   scans |-> Append(acc.scans, <<i, j>>),
   startDate |-> found.startDate,
   endDate |-> found.endDate]

RECURSIVE InnerLoop(_, _, _, _, _, _, _, _)
\* lines 90-112; acc = [collisions, scans, startDate, endDate]: scans lists the
\* pairs scanned, startDate and endDate are the two Date objects, which every
\* call of findCloseApproaches gets by reference
InnerLoop(this, objects, startDate, endDate, stepSeconds, i, j, acc) ==
  IF j <= Len(objects)
  THEN InnerLoop(this, objects, startDate, endDate, stepSeconds, i, j + 1,
         PushAll(objects, i, j, acc,
                 FindCloseApproachesRun(this, objects[i].satrec, objects[j].satrec,
                                        acc.startDate, acc.endDate, stepSeconds)))
  ELSE acc

RECURSIVE OuterLoop(_, _, _, _, _, _, _)
\* lines 89-113
OuterLoop(this, objects, startDate, endDate, stepSeconds, i, acc) ==
  IF i <= Len(objects)
  THEN OuterLoop(this, objects, startDate, endDate, stepSeconds, i + 1,
         InnerLoop(this, objects, startDate, endDate, stepSeconds, i, InnerStart(i), acc))
  ELSE acc

\* line 115: the comparator (a, b) => a.time - b.time
CompareTime(a, b) == a.time - b.time

RECURSIVE InsertBefore(_, _)
\* insertion that puts e in front of the elements it compares equal to
InsertBefore(sorted, e) ==
  IF sorted = <<>> THEN <<e>>
  ELSE IF CompareTime(sorted[1], e) < 0
       THEN <<sorted[1]>> \o InsertBefore(Tail(sorted), e)
       ELSE <<e>> \o sorted

RECURSIVE InsertAfter(_, _)
\* insertion that keeps e behind the elements it compares equal to
InsertAfter(sorted, e) ==
  IF sorted = <<>> THEN <<e>>
  ELSE IF CompareTime(sorted[1], e) <= 0
       THEN <<sorted[1]>> \o InsertAfter(Tail(sorted), e)
       ELSE <<e>> \o sorted

RECURSIVE SortUnstable(_)
SortUnstable(seq) ==
  IF seq = <<>> THEN <<>>
  ELSE InsertBefore(SortUnstable(SubSeq(seq, 1, Len(seq) - 1)), seq[Len(seq)])

RECURSIVE SortByTime(_)
\* Array.prototype.sort with CompareTime: a stable sort (ECMAScript 2019)
SortByTime(seq) ==
  IF seq = <<>> THEN <<>>
  ELSE InsertAfter(SortByTime(SubSeq(seq, 1, Len(seq) - 1)), seq[Len(seq)])

\* detectCollisions with the list of pairs it scanned and its arguments as the
\* call leaves them
DetectCollisionsRun(this, objects, startDate, endDate, stepSeconds) ==
  LET acc == OuterLoop(this, objects, startDate, endDate, stepSeconds, 1,
                       [collisions |-> <<>>, scans |-> <<>>,
                        startDate |-> startDate, endDate |-> endDate])
  IN [collisions |-> SortByTime(acc.collisions), scans |-> acc.scans,
      startDate |-> acc.startDate, endDate |-> acc.endDate,
      objects |-> objects, this |-> this]

\* CollisionDetector.detectCollisions
DetectCollisions(this, objects, startDate, endDate, stepSeconds) ==
  DetectCollisionsRun(this, objects, startDate, endDate, stepSeconds).collisions

\* ------------------------------------------------------------------ inputs
Ticks == 1..(MaxTick + 1)

\* the answers of satellite.js at one second: at rest at x km, or an error
Entries == {SgpOk(Vec(x, 0, 0), Vec(0, 0, 0)) : x \in 0..MaxPos} \cup {SgpError}

\* every satrec over the window
Tables == [Ticks -> Entries]

\* the reference object: at rest at the origin
RefSatrec == [k \in Ticks |-> SgpOk(Vec(0, 0, 0), Vec(0, 0, 0))]

\* the reference object with one failing second
RefFailing == [RefSatrec EXCEPT ![2] = SgpError]

\* an object on a straight line: x0 + v * t km
LinearSatrec(x0, v) ==
  [k \in Ticks |-> SgpOk(Vec(x0 + v * (k - 1), 0, 0), Vec(v, 0, 0))]

\* an object whose propagation fails at every instant
DeadSatrec == [k \in Ticks |-> SgpError]

Thresholds == {DefaultThreshold, 2500}
EndDates == {MaxTick * 1000 - 500, MaxTick * 1000}
Steps == {1000, 2000}

Object(id, satrec) == [noradId |-> id, name |-> <<"SAT", id>>, satrec |-> satrec]

\* an object at rest at 1 km whose propagation fails at every even second
FlakySatrec ==
  [k \in Ticks |-> IF k % 2 = 1 THEN SgpError ELSE SgpOk(Vec(1, 0, 0), Vec(0, 0, 0))]

DeadObject == Object(99, DeadSatrec)
FlakyObject == Object(98, FlakySatrec)

\* the objects handed to detectCollisions
DetectObjects ==
  {Object(10 * x0 + v + 2, LinearSatrec(x0, v)) : x0 \in 0..MaxStart, v \in {-1, 0, 1}}
    \cup {DeadObject, FlakyObject}

ObjectLists == UNION {[1..n -> DetectObjects] : n \in 0..MaxObj}

Idle ==
  /\ debris = <<>>
  /\ body = [none |-> TRUE]
  /\ res = [none |-> TRUE]
  /\ calls = 0
  /\ simulator = [none |-> TRUE]
  /\ log = <<>>

\* ---------------------------------------------- findCloseApproaches, one pair
InitFind ==
  /\ pc = "start"
  /\ detector \in {NewCollisionDetector(t) : t \in Thresholds}
  /\ \E T \in Tables, ref \in {RefSatrec, RefFailing}, swap \in BOOLEAN,
        e \in EndDates, s \in Steps :
       /\ swap => ref = RefSatrec
       /\ args = [satrec1 |-> IF swap THEN T ELSE ref,
                  satrec2 |-> IF swap THEN ref ELSE T,
                  startDate |-> 0, endDate |-> e, stepSeconds |-> s]
  /\ run = [none |-> TRUE]
  /\ Idle

CallFindCloseApproaches ==
  /\ pc = "start"
  /\ pc' = "found"
  /\ run' = FindCloseApproachesRun(detector, args.satrec1, args.satrec2,
                                   args.startDate, args.endDate, args.stepSeconds)
  /\ UNCHANGED <<detector, args, debris, body, res, calls, simulator, log>>

NextFind == CallFindCloseApproaches

SpecFind == InitFind /\ [][NextFind]_vars

\* ------------------------------------------------- detectCollisions, n objects
InitDetect ==
  /\ pc = "start"
  /\ detector \in {NewCollisionDetector(t) : t \in Thresholds}
  /\ \E objs \in ObjectLists, s \in Steps :
       args = [objects |-> objs, startDate |-> 0, endDate |-> MaxTick * 1000,
               stepSeconds |-> s]
  /\ run = [none |-> TRUE]
  /\ Idle

CallDetectCollisions ==
  /\ pc = "start"
  /\ pc' = "detected"
  /\ run' = DetectCollisionsRun(detector, args.objects, args.startDate,
                                args.endDate, args.stepSeconds)
  /\ UNCHANGED <<detector, args, debris, body, res, calls, simulator, log>>

NextDetect == CallDetectCollisions

SpecDetect == InitDetect /\ [][NextDetect]_vars

\* ------------------------------------------------------- collisionProbability
\* CollisionDetector.relativeVelocity: km/s -> m/s
RelativeVelocity(vel1, vel2) ==
  LET dvx == vel1.x - vel2.x
      dvy == vel1.y - vel2.y
      dvz == vel1.z - vel2.z
  IN Sqrt(dvx * dvx + dvy * dvy + dvz * dvz) * 1000

\* a collisionProbability whose certain-collision test is strict
CollisionProbabilityStrict(approach, radius1, radius2) ==
  LET combinedRadius == radius1 + radius2
      relativeVel == RelativeVelocity(approach.velocity1, approach.velocity2)
  IN IF approach.distance < combinedRadius
     THEN [one |-> TRUE]
     ELSE [one |-> FALSE,
           num |-> -((approach.distance - combinedRadius) * 10),
           den |-> relativeVel]

\* CollisionDetector.collisionProbability.  1.0 is [one |-> TRUE]; the value
\* Math.min(Math.exp(-missDistance / (relativeVel * 0.1)), 1.0) is kept as the
\* exponent's numerator and denominator (times 10).
CollisionProbability(approach, radius1, radius2) ==
  LET combinedRadius == radius1 + radius2
      relativeVel == RelativeVelocity(approach.velocity1, approach.velocity2)
  IN IF approach.distance <= combinedRadius
     THEN [one |-> TRUE]
     ELSE [one |-> FALSE,
           num |-> -((approach.distance - combinedRadius) * 10),
           den |-> relativeVel]

\* ------------------------------------------------------------- POST /detect
\* parseInt(id, 10) on an id given as a sequence of characters: the number
\* written by the leading digits, NaN if there is none
Digits == <<"0", "1", "2", "3", "4", "5", "6", "7", "8", "9">>
IsDigit(c) == \E d \in 1..10 : Digits[d] = c
DigitValue(c) == (CHOOSE d \in 1..10 : Digits[d] = c) - 1

RECURSIVE ParseDigits(_, _, _)
ParseDigits(str, k, acc) ==
  IF k <= Len(str) /\ IsDigit(str[k])
  THEN ParseDigits(str, k + 1, acc * 10 + DigitValue(str[k]))
  ELSE acc

ParseInt(str) ==
  IF str # <<>> /\ IsDigit(str[1])
  THEN [nan |-> FALSE, value |-> ParseDigits(str, 1, 0)]
  ELSE [nan |-> TRUE]

\* satellite.js twoline2satrec: the satrec the two lines encode
Twoline2satrec(line1, line2) == line2.elements

\* OrbitPropagator.fromTLEData / createSatrec
FromTLEData(tleData) == Twoline2satrec(tleData.line1, tleData.line2)

Has(obj, f) == f \in DOMAIN obj

\* debris.find(d => d.noradId === parseInt(id, 10)): position of the first
\* match, 0 if there is none
FindDebris(catalogue, id) ==
  LET n == ParseInt(id)
      hits == {k \in 1..Len(catalogue) : ~n.nan /\ catalogue[k].noradId = n.value}
  IN IF hits = {} THEN 0 ELSE CHOOSE k \in hits : \A h \in hits : k <= h

\* lines 56-63: the satrec of a catalogue object, if it has orbital data
HasOrbitalData(obj) == Has(obj, "satrec") \/ (Has(obj, "line1") /\ Has(obj, "line2"))
SatrecOf(obj) == IF Has(obj, "satrec") THEN obj.satrec ELSE FromTLEData(obj)

RECURSIVE ResolveObjectsSkipping(_, _, _, _)
\* the loop with the two early returns replaced by continue
ResolveObjectsSkipping(objectIds, catalogue, k, objects) ==
  IF k > Len(objectIds) THEN [failed |-> FALSE, objects |-> objects]
  ELSE LET at == FindDebris(catalogue, objectIds[k])
       IN IF at = 0 \/ ~HasOrbitalData(catalogue[at])
          THEN ResolveObjectsSkipping(objectIds, catalogue, k + 1, objects)
          ELSE ResolveObjectsSkipping(objectIds, catalogue, k + 1,
                 Append(objects, [noradId |-> catalogue[at].noradId,
                                  name |-> catalogue[at].name,
                                  satrec |-> SatrecOf(catalogue[at])]))

RECURSIVE ResolveObjects(_, _, _, _)
\* lines 48-70: look up every id in order; the first id that is not found or has
\* no orbital data ends the request
ResolveObjects(objectIds, catalogue, k, objects) ==
  IF k > Len(objectIds) THEN [failed |-> FALSE, objects |-> objects]
  ELSE LET at == FindDebris(catalogue, objectIds[k])
       IN IF at = 0
          THEN [failed |-> TRUE,
                res |-> [status |-> 404,
                         error |-> <<"Object", objectIds[k], "not found">>]]
          ELSE IF ~HasOrbitalData(catalogue[at])
          THEN [failed |-> TRUE,
                res |-> [status |-> 400,
                         error |-> <<"Object", objectIds[k], "missing orbital data">>]]
          ELSE ResolveObjects(objectIds, catalogue, k + 1,
                 Append(objects, [noradId |-> catalogue[at].noradId,
                                  name |-> catalogue[at].name,
                                  satrec |-> SatrecOf(catalogue[at])]))

\* JavaScript truthiness of the request's threshold (a number, or absent)
Truthy(b, f) == Has(b, f) /\ b[f] # 0

\* a choice that sets the request's threshold on the shared detector
DetectorInstanceReconfigures(b, shared) ==
  IF Truthy(b, "threshold")
  THEN [instance |-> [shared EXCEPT !.threshold = b.threshold],
        shared |-> [shared EXCEPT !.threshold = b.threshold]]
  ELSE [instance |-> shared, shared |-> shared]

\* lines 73-75: the detector the request runs on (instance), and the shared
\* detector of line 21 as the choice leaves it
DetectorInstance(b, shared) ==
  IF Truthy(b, "threshold")
  THEN [instance |-> NewCollisionDetector(b.threshold), shared |-> shared]
  ELSE [instance |-> shared, shared |-> shared]

\* lines 85-88: every collision with its probability
WithProbability(collisions) ==
  [k \in 1..Len(collisions) |->
     [object1 |-> collisions[k].object1, object2 |-> collisions[k].object2,
      time |-> collisions[k].time, distance |-> collisions[k].distance,
      position1 |-> collisions[k].position1, position2 |-> collisions[k].position2,
      velocity1 |-> collisions[k].velocity1, velocity2 |-> collisions[k].velocity2,
      probability |-> CollisionProbability(collisions[k], DefaultRadius, DefaultRadius)]]

\* router.post('/detect'): the response, the call of detectCollisions the
\* handler made (scan), if it made one, and the shared detector after the
\* request.  The catalogue fetch is taken to succeed and startTime and endTime
\* to be given.
HandleDetect(b, catalogue, shared) ==
  IF ~Has(b, "objectIds") \/ Len(b.objectIds) < 2
  THEN [res |-> [status |-> 400, error |-> <<"At least 2 object IDs required">>],
        scan |-> [none |-> TRUE], shared |-> shared]
  ELSE LET startDate == b.startTime
           endDate == b.endTime
           stepSeconds == IF Has(b, "stepSeconds") THEN b.stepSeconds ELSE Seconds(DefaultStepSeconds)
           found == ResolveObjects(b.objectIds, catalogue, 1, <<>>)
       IN IF found.failed
          THEN [res |-> found.res, scan |-> [none |-> TRUE], shared |-> shared]
          ELSE LET chosen == DetectorInstance(b, shared)
                   detectorInstance == chosen.instance
                   detected == DetectCollisionsRun(detectorInstance, found.objects,
                                                   startDate, endDate, stepSeconds)
                   collisions == detected.collisions
                   collisionsWithProb == WithProbability(collisions)
               IN [res |-> [status |-> 200,
                            count |-> Len(collisionsWithProb),
                            timeRange |-> [start |-> detected.startDate,
                                           end |-> detected.endDate],
                            collisions |-> collisionsWithProb],
                   scan |-> [none |-> FALSE,
                             threshold |-> detected.this.threshold,
                             objects |-> detected.objects],
                   shared |-> IF Truthy(b, "threshold")
                              THEN chosen.shared
                              ELSE detected.this]

\* the catalogue the data fetcher returns: an object with a satrec, one with
\* both TLE lines, one with a single TLE line
Catalogue ==
  << [noradId |-> 1, name |-> <<"SAT", 1>>, satrec |-> LinearSatrec(0, 0)],
     [noradId |-> 2, name |-> <<"SAT", 2>>,
      line1 |-> [line |-> 1],
      line2 |-> [line |-> 2, elements |-> LinearSatrec(1, -1)]],
     [noradId |-> 3, name |-> <<"SAT", 3>>, line1 |-> [line |-> 1]] >>

\* the ids a request may name: in the catalogue, written with trailing text, in
\* the catalogue without orbital data, not in the catalogue
IdPool == {<<"1">>, <<"2", "x">>, <<"3">>, <<"7">>}
IdLists == UNION {[1..n -> IdPool] : n \in 0..MaxIds}
RequestThresholds == {0, -5, 2500}

Bodies ==
  LET base == [startTime |-> 0, endTime |-> MaxTick * 1000, stepSeconds |-> 1000]
      withIds == {base} \cup
                 {[startTime |-> 0, endTime |-> MaxTick * 1000, stepSeconds |-> 1000,
                   objectIds |-> ids] : ids \in IdLists}
  IN withIds \cup
     {[f \in DOMAIN w \cup {"threshold"} |-> IF f = "threshold" THEN t ELSE w[f]] :
        w \in withIds, t \in RequestThresholds}

InitRoute ==
  /\ pc = "listening"
  /\ detector = NewCollisionDetector(ConfigCollisionThreshold)
  /\ args = [none |-> TRUE]
  /\ run = [none |-> TRUE]
  /\ debris = Catalogue
  /\ body = [none |-> TRUE]
  /\ res = [none |-> TRUE]
  /\ calls = 0
  /\ simulator = [none |-> TRUE]
  /\ log = <<>>

\* one request to POST /api/collisions/detect, from reception to response;
\* calls counts the requests served, run is the request's detectCollisions call
PostDetect ==
  /\ pc = "listening"
  /\ calls < MaxRequests
  /\ \E b \in Bodies :
       LET h == HandleDetect(b, debris, detector)
       IN /\ body' = b
          /\ res' = h.res
          /\ run' = h.scan
          /\ detector' = h.shared
  /\ calls' = calls + 1
  /\ UNCHANGED <<pc, args, debris, simulator, log>>

NextRoute == PostDetect

SpecRoute == InitRoute /\ [][NextRoute]_vars

\* ======================================================= properties, one pair
\* length of one step in milliseconds, and the sample times of the window
StepMs == args.stepSeconds
NumSamples == ((args.endDate - args.startDate) \div StepMs) + 1
SampleTimes == {args.startDate + k * StepMs : k \in 0..(NumSamples - 1)}

\* what the state provider answers for the pair at time t
FailsAt(satrec, t) == SgpPropagate(satrec, t).error
OkAt(t) == ~FailsAt(args.satrec1, t) /\ ~FailsAt(args.satrec2, t)
DistAt(t) ==
  Distance(SgpPropagate(args.satrec1, t).position, SgpPropagate(args.satrec2, t).position)
NoFailure == \A t \in SampleTimes : OkAt(t)
LastInRange(t) == t + StepMs > args.endDate

EventTimes(approaches) == {approaches[k].time : k \in 1..Len(approaches)}
EventAt(t) == t \in EventTimes(run.approaches)

\* conditions (a), (b), (c) on the sampled distances
LocalMinimumAt(t) ==
  /\ DistAt(t) < detector.threshold
  /\ DistAt(t - StepMs) > DistAt(t)
  /\ (LastInRange(t) \/ DistAt(t + StepMs) > DistAt(t))

\* C1: with no propagation failure, a sample other than the first one produces
\* an event exactly when it is below the threshold, the sample before it is
\* strictly farther and the sample after it is beyond the window or strictly
\* farther.
C1_LocalMinimumRule ==
  (pc = "found" /\ NoFailure) =>
    \A t \in SampleTimes \ {args.startDate} : EventAt(t) <=> LocalMinimumAt(t)

C1_Witness ==
  /\ pc = "found"
  /\ NoFailure
  /\ \E t \in SampleTimes \ {args.startDate} :
       EventAt(t) /\ ~LastInRange(t) /\ LocalMinimumAt(t)

\* the distance of the nearest earlier sample at which both objects propagate
PrevDist(t) ==
  LET earlier == {u \in SampleTimes : u < t /\ OkAt(u)}
  IN IF earlier = {} THEN Infinity
     ELSE DistAt(CHOOSE u \in earlier : \A w \in earlier : w <= u)

FailureBefore(t) == \E f \in SampleTimes : f < t /\ ~OkAt(f)

\* a sample that propagates, whose look-ahead propagates, and that is a local
\* minimum below the threshold
ReportableAt(t) ==
  /\ OkAt(t)
  /\ LastInRange(t) \/ OkAt(t + StepMs)
  /\ DistAt(t) < detector.threshold
  /\ PrevDist(t) > DistAt(t)
  /\ LastInRange(t) \/ DistAt(t + StepMs) > DistAt(t)

\* C5: a propagation failure does not end the scan: the loop runs once for every
\* sample time of the window, in order, and a sample after a failure that is a
\* local minimum below the threshold, with its own and its look-ahead propagation
\* succeeding, is reported.
C5_FailureDoesNotStopScan ==
  pc = "found" =>
    /\ run.visited = [k \in 1..NumSamples |-> args.startDate + (k - 1) * StepMs]
    /\ \A t \in SampleTimes : (FailureBefore(t) /\ ReportableAt(t)) => EventAt(t)

C5_Witness ==
  /\ pc = "found"
  /\ \E t \in SampleTimes :
       FailureBefore(t) /\ ReportableAt(t) /\ EventAt(t) /\ ~LastInRange(t)

\* the satrecs that answer as T does wherever T answers, and never fail
Completions(T) ==
  LET F == {k \in Ticks : T[k].error}
      OkEntries == {e \in Entries : ~e.error}
  IN {[k \in Ticks |-> IF k \in F THEN g[k] ELSE T[k]] : g \in [F -> OkEntries]}

\* C6: whatever samples fail, the events returned are among the events returned
\* for the same pair and distances when nothing fails.
C6_FailuresOnlyRemoveEvents ==
  pc = "found" =>
    \A D1 \in Completions(args.satrec1), D2 \in Completions(args.satrec2) :
      EventTimes(run.approaches) \subseteq
        EventTimes(FindCloseApproaches(detector, D1, D2, args.startDate,
                                       args.endDate, args.stepSeconds))

\* ===================================================== properties, n objects
NumObjects == Len(args.objects)
Pairs == {<<i, j>> \in (1..NumObjects) \X (1..NumObjects) : i < j}

\* the pairs in lexicographic order
PairBefore(p, q) == p[1] < q[1] \/ (p[1] = q[1] /\ p[2] < q[2])
PairSeq ==
  [r \in 1..Cardinality(Pairs) |->
     CHOOSE p \in Pairs : Cardinality({q \in Pairs : PairBefore(q, p)}) = r - 1]

Info(i) == [noradId |-> args.objects[i].noradId, name |-> args.objects[i].name]
ObjFailsAt(i, t) == FailsAt(args.objects[i].satrec, t)
PosAt(i, t) == SgpPropagate(args.objects[i].satrec, t).position
PairDist(i, j, t) == Distance(PosAt(i, t), PosAt(j, t))

\* no sampled distance of any pair is below the threshold
NoCrossing ==
  \A p \in Pairs, t \in SampleTimes :
    (~ObjFailsAt(p[1], t) /\ ~ObjFailsAt(p[2], t)) =>
      PairDist(p[1], p[2], t) >= detector.threshold

\* C3: every event of detectCollisions is strictly below the threshold, and a
\* window in which no sampled distance is below the threshold gives no event.
C3_EventsBelowThreshold ==
  pc = "detected" =>
    /\ \A k \in 1..Len(run.collisions) : run.collisions[k].distance < detector.threshold
    /\ NoCrossing => run.collisions = <<>>

C3_Witness ==
  /\ pc = "detected"
  /\ Len(run.collisions) >= 2
  /\ \E k \in 1..Len(run.collisions) : run.collisions[k].distance > 0

C3_WitnessEmpty ==
  /\ pc = "detected"
  /\ NumObjects >= 2
  /\ NoCrossing
  /\ run.collisions = <<>>

\* the events of pair p, as collisions
PairEvents(p) ==
  PairCollisions(args.objects, p[1], p[2],
    FindCloseApproaches(detector, args.objects[p[1]].satrec, args.objects[p[2]].satrec,
                        args.startDate, args.endDate, args.stepSeconds))

RECURSIVE InScanOrder(_, _)
\* the events of the first r pairs of ps, pair after pair
InScanOrder(ps, r) ==
  IF r = 0 THEN <<>> ELSE InScanOrder(ps, r - 1) \o PairEvents(ps[r])

AtTime(events, t) == SelectSeq(events, LAMBDA e : e.time = t)

\* C4: the result is in non-decreasing order of time, and the events of one
\* time are in the order in which their pairs are scanned.
C4_SortedByTimeStable ==
  pc = "detected" =>
    LET ps == PairSeq
        scanned == InScanOrder(ps, Len(ps))
    IN /\ \A k, l \in 1..Len(run.collisions) :
            k < l => run.collisions[k].time <= run.collisions[l].time
       /\ Len(run.collisions) = Len(scanned)
       /\ \A t \in SampleTimes : AtTime(run.collisions, t) = AtTime(scanned, t)

\* two events of one time from different pairs, and an earlier-scanned pair
\* whose event comes later in time
C4_Witness ==
  /\ pc = "detected"
  /\ \E k \in 1..(Len(run.collisions) - 1) :
       /\ run.collisions[k].time = run.collisions[k + 1].time
       /\ run.collisions[k] # run.collisions[k + 1]
  /\ \E p, q \in Pairs :
       /\ PairBefore(p, q)
       /\ \E e \in {PairEvents(p)[k] : k \in 1..Len(PairEvents(p))},
             f \in {PairEvents(q)[k] : k \in 1..Len(PairEvents(q))} : f.time < e.time

\* object d fails to propagate at every sample time of the window
DeadInWindow(d) == \A t \in SampleTimes : ObjFailsAt(d, t)

RemoveAt(seq, d) == SubSeq(seq, 1, d - 1) \o SubSeq(seq, d + 1, Len(seq))

\* C7: an object that never propagates in the window takes part in no event,
\* and the result is the result for the input without that object.
C7_DeadObjectYieldsNoEvents ==
  pc = "detected" =>
    \A d \in 1..NumObjects :
      DeadInWindow(d) =>
        /\ \A k \in 1..Len(run.collisions) :
             /\ run.collisions[k].object1.noradId # args.objects[d].noradId
             /\ run.collisions[k].object2.noradId # args.objects[d].noradId
        /\ run.collisions =
             DetectCollisions(detector, RemoveAt(args.objects, d), args.startDate,
                              args.endDate, args.stepSeconds)

C7_Witness ==
  /\ pc = "detected"
  /\ \E d \in 1..NumObjects :
       /\ DeadInWindow(d)
       /\ args.objects[d] = FlakyObject
       /\ 1 < d /\ d < NumObjects
  /\ run.collisions # <<>>

\* C10: the scanned pairs are the pairs (i, j), i < j, each once, in
\* lexicographic order; every event carries as object1 the object of the earlier
\* input position and as object2 that of the later one.
C10_EachPairScannedOnce ==
  pc = "detected" =>
    /\ run.scans = PairSeq
    /\ 2 * Len(run.scans) = NumObjects * (NumObjects - 1)
    /\ \A k \in 1..Len(run.scans) : run.scans[k][1] # run.scans[k][2]
    /\ \A k \in 1..Len(run.collisions) :
         LET e == run.collisions[k]
         IN \E p \in Pairs :
              /\ e.object1 = Info(p[1])
              /\ e.object2 = Info(p[2])
              /\ ~ObjFailsAt(p[1], e.time) /\ ~ObjFailsAt(p[2], e.time)
              /\ e.position1 = PosAt(p[1], e.time)
              /\ e.position2 = PosAt(p[2], e.time)

C10_Witness ==
  /\ pc = "detected"
  /\ NumObjects = MaxObj
  /\ Len(run.scans) >= 3
  /\ \E k \in 1..Len(run.collisions) :
       run.collisions[k].object1.noradId > run.collisions[k].object2.noradId

\* the distance of a pair over every second of the window falls strictly to one
\* instant m and rises strictly after it, without failure, to less than the
\* threshold at m
WindowSeconds == {t \in args.startDate..args.endDate : t % 1000 = 0}
VShapedAt(i, j, m) ==
  /\ m \in WindowSeconds
  /\ \A t \in WindowSeconds : ~ObjFailsAt(i, t) /\ ~ObjFailsAt(j, t)
  /\ \A t \in WindowSeconds :
       /\ (t + 1000 <= m) => PairDist(i, j, t) > PairDist(i, j, t + 1000)
       /\ (m <= t /\ t + 1000 \in WindowSeconds) => PairDist(i, j, t + 1000) > PairDist(i, j, t)
  /\ PairDist(i, j, m) < detector.threshold

Abs(x) == IF x < 0 THEN -x ELSE x

\* C2: a pair whose distance has a single dip below the threshold gets exactly
\* one event, at a sample time within one step of the instant of the minimum.
C2_SingleDipSingleEvent ==
  (pc = "detected" /\ NumObjects = 2) =>
    \A m \in WindowSeconds :
      VShapedAt(1, 2, m) =>
        /\ Len(run.collisions) = 1
        /\ Abs(run.collisions[1].time - m) <= StepMs

\* ===================================================== properties, POST /detect
Served == calls > 0
Rejected == res.status \in {400, 404} /\ Has(res, "error") /\ ~Has(res, "collisions")
NoScan == run = [none |-> TRUE]

\* C8: a request whose threshold is 0 or negative is rejected with a validation
\* error and runs no scan.
C8_NonPositiveThresholdRejected ==
  (Served /\ Has(body, "threshold") /\ body.threshold <= 0) => (Rejected /\ NoScan)

\* the object an id names: the catalogue object with that number
Named(id) ==
  {k \in 1..Len(debris) : ~ParseInt(id).nan /\ debris[k].noradId = ParseInt(id).value}
Unusable(id) ==
  \/ Named(id) = {}
  \/ \E k \in Named(id) :
       /\ ~Has(debris[k], "satrec")
       /\ ~(Has(debris[k], "line1") /\ Has(debris[k], "line2"))

\* C9: a request with fewer than two ids, or naming an object that is not in the
\* catalogue or has neither a satrec nor both TLE lines, gets an error response
\* and detectCollisions is not called.
C9_InvalidObjectsRejected ==
  Served =>
    ((\/ ~Has(body, "objectIds")
      \/ Len(body.objectIds) < 2
      \/ \E k \in 1..Len(body.objectIds) : Unusable(body.objectIds[k]))
       => (Rejected /\ NoScan))

\* a usable id first, an unusable one after it
C9_Witness ==
  /\ Served
  /\ Has(body, "objectIds")
  /\ Len(body.objectIds) >= 2
  /\ ~Unusable(body.objectIds[1])
  /\ Unusable(body.objectIds[Len(body.objectIds)])
  /\ Rejected /\ NoScan

\* ========================================================== CollisionSimulator
\* A name argument is <<>> (null or undefined) or <<s>> for the string s.
NoName == <<>>
Name(s) == <<s>>

\* JavaScript truthiness of a name: null, undefined and '' are falsy
NameTruthy(name) == name # NoName /\ name[1] # ""

\* model objects; oid tells one instance from another
NASACollisionModel(oid) ==
  [oid |-> oid, class |-> "NASACollisionModel", base |-> TRUE, name |-> "NASA Model"]
CustomCollisionModel(oid) ==
  [oid |-> oid, class |-> "CustomCollisionModel", base |-> TRUE, name |-> "Custom Model"]
PlainObject(oid) == [oid |-> oid, class |-> "Object", base |-> FALSE]

\* model instanceof BaseCollisionModel
InstanceOfBase(model) == model.base

\* a JavaScript Map: its entries in insertion order
MapHas(m, key) == \E k \in 1..Len(m) : m[k].key = key
MapGet(m, key) ==
  IF MapHas(m, key)
  THEN [undefined |-> FALSE,
        value |-> m[CHOOSE k \in 1..Len(m) :
                      m[k].key = key /\ \A h \in 1..(k - 1) : m[h].key # key].value]
  ELSE [undefined |-> TRUE]

\* a set that adds an entry even when the key is already there
MapSetAppends(m, key, value) == Append(m, [key |-> key, value |-> value])

\* Map.prototype.set: an existing key keeps its place and takes the new value
MapSet(m, key, value) ==
  IF MapHas(m, key)
  THEN [k \in 1..Len(m) |-> IF m[k].key = key THEN [key |-> key, value |-> value] ELSE m[k]]
  ELSE Append(m, [key |-> key, value |-> value])

MapKeys(m) == [k \in 1..Len(m) |-> m[k].key]

\* a registerModel that stores the model before it checks it
RegisterModelStoresFirst(this, name, model) ==
  IF ~InstanceOfBase(model)
  THEN [threw |-> TRUE, error |-> <<"Model must extend BaseCollisionModel">>,
        this |-> [this EXCEPT !.models = MapSet(@, name, model)]]
  ELSE [threw |-> FALSE, this |-> [this EXCEPT !.models = MapSet(@, name, model)]]

\* a registerModel that makes the registered name the default
RegisterModelAsDefault(this, name, model) ==
  IF ~InstanceOfBase(model)
  THEN [threw |-> TRUE, error |-> <<"Model must extend BaseCollisionModel">>, this |-> this]
  ELSE [threw |-> FALSE,
        this |-> [models |-> MapSet(this.models, name, model), defaultModel |-> name[1]]]

\* CollisionSimulator.registerModel: the simulator afterwards, and whether the
\* call threw
RegisterModel(this, name, model) ==
  IF ~InstanceOfBase(model)
  THEN [threw |-> TRUE, error |-> <<"Model must extend BaseCollisionModel">>, this |-> this]
  ELSE [threw |-> FALSE, this |-> [this EXCEPT !.models = MapSet(@, name, model)]]

\* new CollisionSimulator()
NewCollisionSimulator ==
  RegisterModel([models |-> <<>>, defaultModel |-> "nasa"], Name("nasa"),
                NASACollisionModel(1)).this

\* a getModel that answers an unknown name with the default model
GetModelFallsBack(this, name) ==
  LET model == MapGet(this.models, IF NameTruthy(name) THEN name ELSE Name(this.defaultModel))
  IN IF model.undefined
     THEN [threw |-> FALSE, value |-> MapGet(this.models, Name(this.defaultModel)).value]
     ELSE [threw |-> FALSE, value |-> model.value]

\* CollisionSimulator.getModel
GetModel(this, name) ==
  LET model == MapGet(this.models, IF NameTruthy(name) THEN name ELSE Name(this.defaultModel))
  IN IF model.undefined
     THEN [threw |-> TRUE, error |-> <<"Model '", name, "' not found">>]
     ELSE [threw |-> FALSE, value |-> model.value]

\* CollisionSimulator.listModels
ListModels(this) == MapKeys(this.models)

\* ModelRegistry: registerModel delegates to its simulator, getModels lists the
\* simulator's names with their descriptions
RegistryRegisterModel(this, name, model) == RegisterModel(this, name, model)
GetModelDescription(name) ==
  IF name = Name("nasa")
  THEN "NASA ORDEM-inspired model with power-law fragment distribution"
  ELSE IF name = Name("custom")
  THEN "Custom model template for user-defined physics"
  ELSE "Unknown model"
GetModels(this) ==
  LET names == ListModels(this)
  IN [k \in 1..Len(names) |-> [name |-> names[k], description |-> GetModelDescription(names[k])]]

\* ---------------------------------------------------- the registry in use
MaxRegs == 2      \* registerModel calls after construction

\* names models are registered under, and names looked up
RegisterNames == {Name("nasa"), Name("custom"), Name("")}
LookupNames == RegisterNames \cup {Name("mine"), NoName}

\* what callers hand to registerModel
ModelPool == {NASACollisionModel(2), CustomCollisionModel(3), PlainObject(4)}

\* log: the registerModel calls made so far, the constructor's included
InitRegistry ==
  /\ pc = "ready"
  /\ simulator = NewCollisionSimulator
  /\ log = << [name |-> Name("nasa"), model |-> NASACollisionModel(1), threw |-> FALSE] >>
  /\ detector = [none |-> TRUE]
  /\ args = [none |-> TRUE]
  /\ run = [none |-> TRUE]
  /\ debris = <<>>
  /\ body = [none |-> TRUE]
  /\ res = [none |-> TRUE]
  /\ calls = 0

CallRegisterModel ==
  /\ pc = "ready"
  /\ Len(log) <= MaxRegs
  /\ \E name \in RegisterNames, model \in ModelPool :
       LET r == RegistryRegisterModel(simulator, name, model)
       IN /\ simulator' = r.this
          /\ log' = Append(log, [name |-> name, model |-> model, threw |-> r.threw])
          /\ run' = [op |-> "registerModel", name |-> name, threw |-> r.threw]
  /\ UNCHANGED <<pc, detector, args, debris, body, res, calls>>

CallGetModel ==
  /\ pc = "ready"
  /\ \E name \in LookupNames :
       run' = [op |-> "getModel", name |-> name, result |-> GetModel(simulator, name)]
  /\ UNCHANGED <<pc, detector, args, debris, body, res, calls, simulator, log>>

CallListModels ==
  /\ pc = "ready"
  /\ run' = [op |-> "listModels", result |-> ListModels(simulator),
             models |-> GetModels(simulator)]
  /\ UNCHANGED <<pc, detector, args, debris, body, res, calls, simulator, log>>

NextRegistry == CallRegisterModel \/ CallGetModel \/ CallListModels

SpecRegistry == InitRegistry /\ [][NextRegistry]_vars

\* ========================================================= properties, registry
\* the successful registrations under a name, and the latest of them
RegistrationsOf(n) == {k \in 1..Len(log) : log[k].name = n /\ ~log[k].threw}
LastRegistered(n) ==
  log[CHOOSE k \in RegistrationsOf(n) : \A h \in RegistrationsOf(n) : h <= k].model
Occurrences(seq, x) == Cardinality({k \in 1..Len(seq) : seq[k] = x})

C12_WitnessDefault ==
  /\ ~Has(run, "none") /\ run.op = "getModel"
  /\ run.name = NoName
  /\ run.result = [threw |-> FALSE, value |-> NASACollisionModel(2)]

\* names under which a model has been registered
RegisteredNames == {log[k].name : k \in {h \in 1..Len(log) : ~log[h].threw}}

\* C13 as stated: after any sequence of registerModel calls, getModel(n) returns
\* the model most recently registered under n, for every registered name n, and
\* listModels holds every registered name exactly once.
C13_LatestRegistrationWins ==
  \A n \in RegisteredNames :
    /\ GetModel(simulator, n) = [threw |-> FALSE, value |-> LastRegistered(n)]
    /\ Occurrences(ListModels(simulator), n) = 1

\* C13, amended: after any sequence of registerModel calls, getModel(n) returns
\* the model most recently registered under n for every non-empty registered
\* name n; a model registered under the empty name is listed but getModel('')
\* answers with the default model; listModels holds every registered name,
\* the empty one included, exactly once, and nothing else.
C13_LatestRegistrationWinsForNonEmptyNames ==
  /\ \A n \in RegisteredNames :
       /\ NameTruthy(n) =>
            GetModel(simulator, n) = [threw |-> FALSE, value |-> LastRegistered(n)]
       /\ ~NameTruthy(n) =>
            GetModel(simulator, n) =
              [threw |-> FALSE, value |-> LastRegistered(Name(simulator.defaultModel))]
       /\ Occurrences(ListModels(simulator), n) = 1
  /\ \A k \in 1..Len(ListModels(simulator)) : ListModels(simulator)[k] \in RegisteredNames

\* a name registered twice, with two different models
C13_Witness ==
  \E j, k \in 1..Len(log) :
    /\ j < k
    /\ log[j].name = log[k].name
    /\ ~log[j].threw /\ ~log[k].threw
    /\ log[j].model # log[k].model
    /\ k = Len(log)
    /\ GetModel(simulator, log[k].name) = [threw |-> FALSE, value |-> log[k].model]

\* ======================================================== NASACollisionModel
\* Masses are integers, in units of 1/UnitsPerKg kg: fine enough for the nine
\* halvings the mass distribution can apply to a whole number of grams.
UnitsPerKg == 512 * 1000
Kg(n) == n * UnitsPerKg
DefaultMass == Kg(100)

Min(a, b) == IF a < b THEN a ELSE b
Max(a, b) == IF a > b THEN a ELSE b

RECURSIVE Gcd(_, _)
Gcd(a, b) == IF b = 0 THEN a ELSE Gcd(b, a % b)

\* the fraction n/d in lowest terms; a division by zero is NaN (0/0) or an
\* infinity
Rat(n, d) ==
  IF d = 0
  THEN (IF n = 0 THEN [nan |-> TRUE] ELSE [nan |-> FALSE, inf |-> TRUE, neg |-> n < 0])
  ELSE LET s == IF d < 0 THEN -1 ELSE 1
           g == Gcd(Abs(n), Abs(d))
       IN [nan |-> FALSE, inf |-> FALSE, n |-> (s * n) \div g, d |-> (s * d) \div g]

\* the number n/d * 10^e, with n/d in lowest terms, d prime to 10 and n not a
\* multiple of 10: one representation per value
RECURSIVE Sci(_, _, _)
Sci(n, d, e) ==
  IF n = 0 THEN [n |-> 0, d |-> 1, e |-> 0]
  ELSE LET g == Gcd(Abs(n), d)
       IN IF g > 1 THEN Sci(n \div g, d \div g, e)
          ELSE IF d % 2 = 0 THEN Sci(n * 5, d \div 2, e - 1)
          ELSE IF d % 5 = 0 THEN Sci(n * 2, d \div 5, e - 1)
          ELSE IF n % 10 = 0 THEN Sci(n \div 10, d, e + 1)
          ELSE [n |-> n, d |-> d, e |-> e]

\* the NASA model's parameters (constructor, lines 9-12)
FragmentsPerKg == [n |-> 1, d |-> 10]
MinFragmentMass == UnitsPerKg \div 1000
MaxFragmentMass == Kg(10)

\* object.mass || 100
MassOrDefault(object) ==
  IF Has(object, "mass") /\ object.mass # 0 THEN object.mass ELSE DefaultMass

\* the norm of the velocity difference, left in km/s
ModelRelativeVelocityKm(velocity1, velocity2) ==
  LET dvx == velocity1.x - velocity2.x
      dvy == velocity1.y - velocity2.y
      dvz == velocity1.z - velocity2.z
  IN Sqrt(dvx * dvx + dvy * dvy + dvz * dvz)

\* simulate, line 31: relativeVelocity in m/s
ModelRelativeVelocity(velocity1, velocity2) ==
  LET dvx == velocity1.x - velocity2.x
      dvy == velocity1.y - velocity2.y
      dvz == velocity1.z - velocity2.z
  IN Sqrt(dvx * dvx + dvy * dvy + dvz * dvz) * 1000

\* simulate, line 34: (mass1 * mass2) / (mass1 + mass2) in kg, as a fraction.
\* The common factor of the two masses is taken out before multiplying.
ReducedMass(mass1, mass2) ==
  LET g == Gcd(mass1, mass2)
      a == mass1 \div g
      b == mass2 \div g
      perUnit == Rat(g, UnitsPerKg)
      ab == Rat(a * b, a + b)
  IN Rat(perUnit.n * ab.n, perUnit.d * ab.d)

\* simulate, line 35: 0.5 * reducedMass * relativeVelocity * relativeVelocity,
\* in joules; relativeVelocity is a multiple of 1000
CollisionEnergy(reducedMass, relativeVelocity) ==
  LET kms == relativeVelocity \div 1000
  IN Sci(reducedMass.n * kms * kms, 2 * reducedMass.d, 6)

\* a fragment count without the floor of ten
FragmentCountUnbounded(totalMass) ==
  (totalMass * FragmentsPerKg.n) \div (FragmentsPerKg.d * UnitsPerKg)

\* simulate, line 51: Math.max(10, Math.floor(totalMass * this.fragmentsPerKg))
FragmentCount(totalMass) ==
  Max(10, (totalMass * FragmentsPerKg.n) \div (FragmentsPerKg.d * UnitsPerKg))

\* (mass1 * a + mass2 * b) / totalMass, componentwise
MassWeighted(mass1, a, mass2, b) ==
  [x |-> Rat(mass1 * a.x + mass2 * b.x, mass1 + mass2),
   y |-> Rat(mass1 * a.y + mass2 * b.y, mass1 + mass2),
   z |-> Rat(mass1 * a.z + mass2 * b.z, mass1 + mass2)]

\* NASACollisionModel.simulate
NasaSimulate(object1, object2, collisionParams) ==
  LET mass1 == MassOrDefault(object1)
      mass2 == MassOrDefault(object2)
      totalMass == mass1 + mass2
      dvx == object1.velocity.x - object2.velocity.x
      dvy == object1.velocity.y - object2.velocity.y
      dvz == object1.velocity.z - object2.velocity.z
      relativeVelocity == ModelRelativeVelocity(object1.velocity, object2.velocity)
      reducedMass == ReducedMass(mass1, mass2)
      collisionEnergy == CollisionEnergy(reducedMass, relativeVelocity)
      axisLength == Sqrt(dvx * dvx + dvy * dvy + dvz * dvz)
  IN [collisionTime |-> collisionParams.time,
      collisionPosition |-> MassWeighted(mass1, object1.position, mass2, object2.position),
      collisionAxis |-> [x |-> Rat(dvx, axisLength), y |-> Rat(dvy, axisLength),
                         z |-> Rat(dvz, axisLength)],
      totalMass |-> totalMass,
      relativeVelocity |-> relativeVelocity,
      collisionEnergy |-> collisionEnergy,
      fragmentCount |-> FragmentCount(totalMass),
      object1 |-> [mass |-> mass1, velocity |-> object1.velocity, position |-> object1.position],
      object2 |-> [mass |-> mass2, velocity |-> object2.velocity, position |-> object2.position]]

\* Math.random(): the j-th draw of a run, in thousandths.  A run's draws repeat
\* the pattern it was given.
Random(random, j) == random[((j - 1) % Len(random)) + 1]

\* lines 142-147: the mass the power law gives for the draw u, to the gram:
\* minFragmentMass at u = 0, 3 g at u = 0.5, 6.893 kg at u = 0.999
PowerLawMass(u) ==
  CASE u = 0 -> MinFragmentMass
    [] u = 500 -> 3 * MinFragmentMass
    [] u = 999 -> 6893 * MinFragmentMass

RECURSIVE MassLoop(_, _, _, _, _)
\* lines 140-151: the loop over i = 0 .. count - 2
MassLoop(count, random, i, masses, remainingMass) ==
  IF ~(i < count - 1)
  THEN [masses |-> masses, remainingMass |-> remainingMass]
  ELSE LET u == Random(random, i + 1)
           mass == PowerLawMass(u)
           actualMass == Min(mass, remainingMass \div 2)
       IN MassLoop(count, random, i + 1, Append(masses, actualMass),
                   remainingMass - actualMass)

\* NASACollisionModel.calculateFragmentMassDistribution
CalculateFragmentMassDistribution(count, totalMass, random) ==
  LET loop == MassLoop(count, random, 0, <<>>, totalMass)
  IN Append(loop.masses, Max(loop.remainingMass, MinFragmentMass))

\* BaseCollisionModel.calculateFragmentVelocities: the k-th magnitude is
\* sqrt(2 * avgEnergy * (0.5 + u) / 0.001), kept as avgEnergy and 1000 * (0.5 + u)
CalculateFragmentVelocities(totalEnergy, fragmentCount, random, first) ==
  [k \in 1..fragmentCount |->
     [avgEnergy |-> Sci(totalEnergy.n, totalEnergy.d * fragmentCount, totalEnergy.e),
      factor |-> 500 + Random(random, first + k - 1)]]

\* BaseCollisionModel.calculateFragmentDirections: the k-th direction has
\* theta = 2 * pi * u1 and phi = acos(2 * u2 - 1), kept as the two draws
CalculateFragmentDirections(count, collisionAxis, random, first) ==
  [k \in 1..count |->
     [theta |-> Random(random, first + 2 * (k - 1)),
      phi |-> Random(random, first + 2 * (k - 1) + 1)]]

\* NASACollisionModel.estimateSize: the diameter of the sphere of this volume
EstimateSize(mass) == [sphereOfVolume |-> Rat(mass, 2700 * UnitsPerKg)]

\* an id that does not depend on the index
FragmentIdConstant(i) == <<"fragment_", 0>>

\* line 115: `fragment_${i}`
FragmentId(i) == <<"fragment_", i>>

\* NASACollisionModel.generateDebris.  The draws are taken in the order of the
\* calls: count - 1 for the masses, count for the velocities, 2 * count for the
\* directions, one offset per fragment.  A fragment's velocity is
\* comVelocity + direction * velocityMag / 1000 and its position
\* collisionPosition + direction * (u - 0.5) * 0.01, kept as their terms.
NasaGenerateDebris(collisionResult, random) ==
  LET fragmentCount == collisionResult.fragmentCount
      fragmentMasses ==
        CalculateFragmentMassDistribution(fragmentCount, collisionResult.totalMass, random)
      fragmentVelocities ==
        CalculateFragmentVelocities(collisionResult.collisionEnergy, fragmentCount,
                                    random, fragmentCount)
      fragmentDirections ==
        CalculateFragmentDirections(fragmentCount, collisionResult.collisionAxis,
                                    random, 2 * fragmentCount)
      comVelocity ==
        MassWeighted(collisionResult.object1.mass, collisionResult.object1.velocity,
                     collisionResult.object2.mass, collisionResult.object2.velocity)
  IN [k \in 1..fragmentCount |->
        [id |-> FragmentId(k - 1),
         mass |-> fragmentMasses[k],
         position |-> [at |-> collisionResult.collisionPosition,
                       direction |-> fragmentDirections[k],
                       offset |-> Random(random, 4 * fragmentCount + k - 1)],
         velocity |-> [comVelocity |-> comVelocity,
                       direction |-> fragmentDirections[k],
                       velocityMag |-> fragmentVelocities[k]],
         direction |-> fragmentDirections[k],
         size |-> EstimateSize(fragmentMasses[k])]]

\* CustomCollisionModel.simulate and generateDebris (the template model)
CustomSimulate(object1, object2, collisionParams) ==
  LET totalMass == MassOrDefault(object1) + MassOrDefault(object2)
  IN [collisionTime |-> collisionParams.time,
      collisionPosition |-> object1.position,
      totalMass |-> totalMass,
      fragmentCount |-> totalMass \div (10 * UnitsPerKg)]

CustomGenerateDebris(collisionResult) ==
  [k \in 1..collisionResult.fragmentCount |->
     [id |-> <<"fragment_", k - 1>>,
      mass |-> Kg(1),
      position |-> collisionResult.collisionPosition,
      velocity |-> Vec(0, 0, 0)]]

\* model.simulate and model.generateDebris, by the class of the model
Simulate(model, object1, object2, collisionParams) ==
  IF model.class = "NASACollisionModel"
  THEN NasaSimulate(object1, object2, collisionParams)
  ELSE CustomSimulate(object1, object2, collisionParams)

GenerateDebris(model, collisionResult, random) ==
  IF model.class = "NASACollisionModel"
  THEN NasaGenerateDebris(collisionResult, random)
  ELSE CustomGenerateDebris(collisionResult)

\* ------------------------------------------------------------ simulateCollision
\* { ...base, ...over }: the fields of over replace those of base
Spread(base, over) ==
  [f \in DOMAIN base \cup DOMAIN over |-> IF f \in DOMAIN over THEN over[f] ELSE base[f]]

\* CollisionSimulator.simulateCollision: what the call returns or throws, and
\* how many times it called model.simulate and model.generateDebris.  The error
\* propagate threw is written with the object whose propagation it was.
SimulateCollision(this, object1, object2, collisionTime, modelName, random) ==
  LET got == GetModel(this, modelName)
  IN IF got.threw
     THEN [threw |-> TRUE, error |-> got.error, simulateCalls |-> 0, generateDebrisCalls |-> 0]
     ELSE
       LET model == got.value
           pos1 == Propagate(object1.satrec, collisionTime)
           pos2 == Propagate(object2.satrec, collisionTime)
       IN IF pos1.threw
          THEN [threw |-> TRUE, error |-> <<"Propagation error", object1.noradId>>,
                simulateCalls |-> 0, generateDebrisCalls |-> 0]
          ELSE IF pos2.threw
          THEN [threw |-> TRUE, error |-> <<"Propagation error", object2.noradId>>,
                simulateCalls |-> 0, generateDebrisCalls |-> 0]
          ELSE
            LET obj1 == [mass |-> MassOrDefault(object1), position |-> pos1.position,
                         velocity |-> pos1.velocity]
                obj2 == [mass |-> MassOrDefault(object2), position |-> pos2.position,
                         velocity |-> pos2.velocity]
                collisionResult == Simulate(model, obj1, obj2, [time |-> collisionTime])
                fragments == GenerateDebris(model, collisionResult, random)
            IN [threw |-> FALSE,
                value |-> [collision |->
                             Spread([time |-> collisionTime,
                                     object1 |-> [noradId |-> object1.noradId,
                                                  name |-> object1.name],
                                     object2 |-> [noradId |-> object2.noradId,
                                                  name |-> object2.name]],
                                    collisionResult),
                           fragments |-> fragments,
                           model |-> model.name],
                simulateCalls |-> 1, generateDebrisCalls |-> 1]

MaxPattern == 2   \* a run's random draws repeat a pattern of at most MaxPattern

\* draws, in thousandths
Draws == {0, 500, 999}
RandomPatterns == UNION {[1..n -> Draws] : n \in 1..MaxPattern}

\* an object moving at constant velocity from the origin
MovingSatrec(v) ==
  [k \in Ticks |-> SgpOk(Vec(v.x * (k - 1), v.y * (k - 1), v.z * (k - 1)), v)]

WithMass(object, mass) ==
  [f \in DOMAIN object \cup {"mass"} |-> IF f = "mass" THEN mass ELSE object[f]]

\* the objects handed to simulateCollision: without a mass, with a mass of 0,
\* 100 and 300 kg and of 125 g, and two whose propagation fails
SimObjects ==
  { Object(1, MovingSatrec(Vec(0, 0, 0))),
    WithMass(Object(2, MovingSatrec(Vec(10, 0, 0))), Kg(100)),
    WithMass(Object(3, MovingSatrec(Vec(6, 8, 0))), 0),
    WithMass(Object(4, MovingSatrec(Vec(0, 3, 4))), Kg(1) \div 8),
    WithMass(Object(5, MovingSatrec(Vec(0, 0, 0))), Kg(300)),
    DeadObject, FlakyObject }

ModelNames == {NoName, Name("nasa"), Name("custom"), Name("mine")}

\* the simulator as constructed, and after registerModel('custom', ...)
Simulators ==
  {NewCollisionSimulator,
   RegisterModel(NewCollisionSimulator, Name("custom"), CustomCollisionModel(3)).this}

InitSim ==
  /\ pc = "start"
  /\ simulator \in Simulators
  /\ \E o1 \in SimObjects, o2 \in SimObjects, t \in {0, 1000}, m \in ModelNames,
        r \in RandomPatterns :
       args = [object1 |-> o1, object2 |-> o2, collisionTime |-> t, modelName |-> m,
               random |-> r]
  /\ log = <<>>
  /\ detector = [none |-> TRUE]
  /\ run = [none |-> TRUE]
  /\ debris = <<>>
  /\ body = [none |-> TRUE]
  /\ res = [none |-> TRUE]
  /\ calls = 0

CallSimulateCollision ==
  /\ pc = "start"
  /\ pc' = "simulated"
  /\ run' = SimulateCollision(simulator, args.object1, args.object2, args.collisionTime,
                              args.modelName, args.random)
  /\ UNCHANGED <<detector, args, debris, body, res, calls, simulator, log>>

NextSim == CallSimulateCollision

SpecSim == InitSim /\ [][NextSim]_vars

\* ====================================================== properties, simulation
\* what the state provider answers for the call's objects
SimFails(object) == SgpPropagate(object.satrec, args.collisionTime).error
ModelResolves == ~GetModel(simulator, args.modelName).threw
FirstFailing == IF SimFails(args.object1) THEN args.object1 ELSE args.object2

\* C11 as stated: if the state of either object cannot be propagated at the
\* collision instant, simulateCollision throws that propagation error, calls
\* neither model.simulate nor model.generateDebris and returns nothing.
C11_PropagationFailureAborts ==
  (pc = "simulated" /\ (SimFails(args.object1) \/ SimFails(args.object2))) =>
    /\ run.threw
    /\ run.error = <<"Propagation error", FirstFailing.noradId>>
    /\ run.simulateCalls = 0 /\ run.generateDebrisCalls = 0
    /\ ~Has(run, "value")

\* C11, amended: if the state of either object cannot be propagated at the
\* collision instant, simulateCollision throws, calls neither model.simulate
\* nor model.generateDebris and returns nothing; the error is the propagation
\* error of the first failing object when the model name resolves, and
\* getModel's not-found error when it does not.
C11_FailureAbortsModelCheckedFirst ==
  (pc = "simulated" /\ (SimFails(args.object1) \/ SimFails(args.object2))) =>
    /\ run.threw
    /\ ModelResolves => run.error = <<"Propagation error", FirstFailing.noradId>>
    /\ ~ModelResolves => run.error = <<"Model '", args.modelName, "' not found">>
    /\ run.simulateCalls = 0 /\ run.generateDebrisCalls = 0
    /\ ~Has(run, "value")

\* the second object fails, the first does not, the model is found
C11_Witness ==
  /\ pc = "simulated"
  /\ ~SimFails(args.object1) /\ SimFails(args.object2)
  /\ ModelResolves
  /\ run.threw /\ run.simulateCalls = 0

\* a call that the NASA model served
NasaOutcome == pc = "simulated" /\ ~run.threw /\ run.value.model = "NASA Model"

\* the masses simulate works with: object.mass, 100 kg where it is absent or 0
GivenMass(object) ==
  IF "mass" \in DOMAIN object /\ object.mass # 0 THEN object.mass ELSE 100 * UnitsPerKg

\* the velocity difference of the two objects at the collision instant, km/s
VelocityAt(object) == SgpPropagate(object.satrec, args.collisionTime).velocity
SpeedDifference ==
  LET a == VelocityAt(args.object1)
      b == VelocityAt(args.object2)
  IN Sqrt((a.x - b.x) * (a.x - b.x) + (a.y - b.y) * (a.y - b.y) + (a.z - b.z) * (a.z - b.z))

\* C16: in every outcome of the NASA model's simulate, fragmentCount is
\* max(10, floor((mass1 + mass2) * 0.1)) for the two masses in kg that simulate
\* works with, and so is at least 10.
C16_FragmentCountFormula ==
  NasaOutcome =>
    LET totalMass == GivenMass(args.object1) + GivenMass(args.object2)
        tenth == totalMass \div (10 * UnitsPerKg)
    IN /\ run.value.collision.fragmentCount = (IF tenth > 10 THEN tenth ELSE 10)
       /\ run.value.collision.fragmentCount >= 10
       /\ Len(run.value.fragments) = run.value.collision.fragmentCount

\* 400 kg in all: 40 fragments
C16_Witness ==
  /\ NasaOutcome
  /\ GivenMass(args.object1) + GivenMass(args.object2) = 400 * UnitsPerKg
  /\ run.value.collision.fragmentCount = 40

\* C20: simulate's relativeVelocity is 1000 times the Euclidean norm of the
\* velocity difference in km/s and its collisionEnergy is
\* 0.5 * (m1 * m2 / (m1 + m2)) * relativeVelocity^2; two 100 kg objects with a
\* velocity difference of 10 km/s give 10000 m/s and 2.5e9 J.
C20_RelativeVelocityAndEnergy ==
  NasaOutcome =>
    LET eighth == UnitsPerKg \div 8
        m1 == GivenMass(args.object1) \div eighth
        m2 == GivenMass(args.object2) \div eighth
        c == run.value.collision
    IN /\ c.relativeVelocity = 1000 * SpeedDifference
       /\ c.collisionEnergy =
            Sci(m1 * m2 * SpeedDifference * SpeedDifference, 2 * (m1 + m2) * 8, 6)
       /\ (m1 = 800 /\ m2 = 800 /\ SpeedDifference = 10) =>
            /\ c.relativeVelocity = 10000
            /\ c.collisionEnergy = [n |-> 25, d |-> 1, e |-> 8]

\* two objects of 100 kg, one of them by default, 10 km/s apart
C20_Witness ==
  /\ NasaOutcome
  /\ GivenMass(args.object1) = 100 * UnitsPerKg
  /\ GivenMass(args.object2) = 100 * UnitsPerKg
  /\ ~("mass" \in DOMAIN args.object1)
  /\ SpeedDifference = 10
  /\ run.value.collision.relativeVelocity = 10000
  /\ run.value.collision.collisionEnergy = [n |-> 25, d |-> 1, e |-> 8]

RECURSIVE SumMasses(_, _)
SumMasses(fragments, k) ==
  IF k = 0 THEN 0 ELSE fragments[k].mass + SumMasses(fragments, k - 1)

\* C15: for every outcome of the NASA model's simulate and every sequence of
\* random draws, the masses of the fragments generateDebris returns sum to the
\* outcome's totalMass.
C15_FragmentMassesSumToTotal ==
  NasaOutcome =>
    SumMasses(run.value.fragments, Len(run.value.fragments)) = run.value.collision.totalMass

\* C17: in the fragments the NASA model's generateDebris returns, every fragment
\* but the last has a mass within [minFragmentMass, maxFragmentMass] =
\* [0.001 kg, 10 kg] and the last a mass of at least minFragmentMass.
C17_FragmentMassesWithinBounds ==
  NasaOutcome =>
    LET fragments == run.value.fragments
    IN /\ \A k \in 1..(Len(fragments) - 1) :
            /\ fragments[k].mass >= UnitsPerKg \div 1000
            /\ fragments[k].mass <= 10 * UnitsPerKg
       /\ fragments[Len(fragments)].mass >= UnitsPerKg \div 1000

\* ---------------------------------------------------------- propagateFragments
\* stepSeconds is given in thousandths of a second here, so that 1.5 s can be
\* written.  Date.setSeconds drops the fraction of its argument.
RECURSIVE TrajectoryLoop(_, _, _, _, _, _)
\* lines 112-129: the while loop of one fragment
TrajectoryLoop(fragment, startTime, endTime, stepSeconds, current, trajectory) ==
  IF ~(current <= endTime)
  THEN trajectory
  ELSE LET elapsed == (current - startTime) \div 1000
           sample == [time |-> current,
                      position |-> Vec(fragment.position.x + fragment.velocity.x * elapsed,
                                       fragment.position.y + fragment.velocity.y * elapsed,
                                       fragment.position.z + fragment.velocity.z * elapsed),
                      velocity |-> fragment.velocity]
       IN TrajectoryLoop(fragment, startTime, endTime, stepSeconds,
                         SetSeconds(current, (GetSeconds(current) * 1000 + stepSeconds) \div 1000),
                         Append(trajectory, sample))

\* CollisionSimulator.propagateFragments
PropagateFragments(fragments, startTime, endTime, stepSeconds) ==
  [i \in 1..Len(fragments) |->
     [fragment |-> fragments[i],
      trajectory |-> TrajectoryLoop(fragments[i], startTime, endTime, stepSeconds,
                                    startTime, <<>>)]]

MaxFrags == 2     \* propagateFragments gets at most MaxFrags fragments
MaxEnd == 4       \* the window ends at most MaxEnd seconds after 0

\* fragments at rest and in motion
FragmentPool ==
  { [id |-> <<"fragment_", 0>>, mass |-> Kg(1), position |-> Vec(1, 2, 3),
     velocity |-> Vec(0, 0, 0)],
    [id |-> <<"fragment_", 1>>, mass |-> Kg(1), position |-> Vec(0, 0, 0),
     velocity |-> Vec(2, 0, 0)],
    [id |-> <<"fragment_", 2>>, mass |-> Kg(2), position |-> Vec(0, 1, 0),
     velocity |-> Vec(-1, 4, 2)] }
FragmentLists == UNION {[1..n -> FragmentPool] : n \in 0..MaxFrags}

\* start and end of the window in ms, the step in thousandths of a second
\* (1 s, 1.5 s, 2 s)
FragmentStarts == {0, 500}
FragmentEnds == {500 * h : h \in 0..(2 * MaxEnd)}
FragmentSteps == {1000, 1500, 2000}

InitFragments ==
  /\ pc = "start"
  /\ \E f \in FragmentLists, s \in FragmentStarts, e \in FragmentEnds, st \in FragmentSteps :
       /\ s <= e
       /\ args = [fragments |-> f, startTime |-> s, endTime |-> e, stepSeconds |-> st]
  /\ simulator = NewCollisionSimulator
  /\ log = <<>>
  /\ detector = [none |-> TRUE]
  /\ run = [none |-> TRUE]
  /\ debris = <<>>
  /\ body = [none |-> TRUE]
  /\ res = [none |-> TRUE]
  /\ calls = 0

CallPropagateFragments ==
  /\ pc = "start"
  /\ pc' = "propagated"
  /\ run' = [trajectories |-> PropagateFragments(args.fragments, args.startTime,
                                                 args.endTime, args.stepSeconds)]
  /\ UNCHANGED <<detector, args, debris, body, res, calls, simulator, log>>

NextFragments == CallPropagateFragments

SpecFragments == InitFragments /\ [][NextFragments]_vars

\* ======================================================= properties, fragments
\* C14: for start <= end and stepSeconds >= 1, propagateFragments returns one
\* trajectory per fragment, in input order, each with exactly
\* floor((end - start) / stepSeconds) + 1 samples at the times
\* start + k * stepSeconds; sample k has the fragment's position plus its
\* velocity times k * stepSeconds, and the fragment's velocity.  (Times in ms,
\* positions compared in thousandths of a km.)
C14_TrajectoriesOnTheGrid ==
  pc = "propagated" =>
    LET t == run.trajectories
        step == args.stepSeconds
    IN /\ Len(t) = Len(args.fragments)
       /\ \A i \in 1..Len(t) :
            LET f == args.fragments[i]
                tr == t[i].trajectory
            IN /\ t[i].fragment = f
               /\ Len(tr) = ((args.endTime - args.startTime) \div step) + 1
               /\ \A k \in 0..(Len(tr) - 1) :
                    /\ tr[k + 1].time = args.startTime + k * step
                    /\ tr[k + 1].position.x * 1000 = f.position.x * 1000 + f.velocity.x * k * step
                    /\ tr[k + 1].position.y * 1000 = f.position.y * 1000 + f.velocity.y * k * step
                    /\ tr[k + 1].position.z * 1000 = f.position.z * 1000 + f.velocity.z * k * step
                    /\ tr[k + 1].velocity = f.velocity

\* the same for whole numbers of seconds
C14_WholeSteps == (args.stepSeconds % 1000 = 0) => C14_TrajectoriesOnTheGrid

\* --------------------------------------------------- collisionProbability, used
MaxDistance == 5  \* events are 0..MaxDistance metres apart

\* velocities in km/s, radii in metres
EventVelocities == {Vec(0, 0, 0), Vec(7, 0, 0), Vec(0, 3, 4), Vec(10, 0, 0)}
Radii == {DefaultRadius, 2}

\* the events handed to collisionProbability
Events ==
  {[distance |-> d, velocity1 |-> v1, velocity2 |-> v2] :
     d \in 0..MaxDistance, v1 \in EventVelocities, v2 \in EventVelocities}

\* Math.exp of the kept exponent num / (den / 10): IEEE division gives
\* -Infinity for a negative numerator over 0, and Math.exp(-Infinity) is 0
ExpIsZero(p) == ~p.one /\ p.den = 0 /\ p.num < 0
ExpIsOne(p) == p.one \/ (p.den # 0 /\ p.num = 0)
ExpStrictlyBetween(p) == ~p.one /\ p.den > 0 /\ p.num < 0

\* p < q for two values of collisionProbability
ProbabilityLess(p, q) ==
  IF ExpIsOne(p) THEN FALSE
  ELSE IF ExpIsOne(q) THEN TRUE
  ELSE IF ExpIsZero(q) THEN FALSE
  ELSE IF ExpIsZero(p) THEN TRUE
  ELSE p.num * q.den < q.num * p.den

InitProbability ==
  /\ pc = "start"
  /\ detector = NewCollisionDetector(DefaultThreshold)
  /\ \E a \in Events, r1 \in Radii, r2 \in Radii :
       args = [approach |-> a, radius1 |-> r1, radius2 |-> r2]
  /\ run = [none |-> TRUE]
  /\ Idle

CallCollisionProbability ==
  /\ pc = "start"
  /\ pc' = "computed"
  /\ run' = [probability |-> CollisionProbability(args.approach, args.radius1, args.radius2)]
  /\ UNCHANGED <<detector, args, debris, body, res, calls, simulator, log>>

NextProbability == CallCollisionProbability

SpecProbability == InitProbability /\ [][NextProbability]_vars

\* ===================================================== properties, probability
\* C18: collisionProbability returns exactly 1.0 whenever the event's distance
\* is at most radius1 + radius2, whatever the two velocities.
C18_CertainWithinCombinedRadius ==
  (pc = "computed" /\ args.approach.distance <= args.radius1 + args.radius2) =>
    run.probability = [one |-> TRUE]

\* the distance equals the combined radius and the velocities are equal
C18_Witness ==
  /\ pc = "computed"
  /\ args.approach.distance = args.radius1 + args.radius2
  /\ args.approach.velocity1 = args.approach.velocity2
  /\ run.probability = [one |-> TRUE]

\* the event of the call moved to the distance d
EventAtDistance(d) == [args.approach EXCEPT !.distance = d]

\* C19: for every event with distance greater than radius1 + radius2 and any
\* velocities, equal ones included, collisionProbability returns a value
\* strictly between 0 and 1, and with velocities and radii fixed the value
\* decreases as the distance increases.
C19_StrictlyBetweenAndDecreasing ==
  (pc = "computed" /\ args.approach.distance > args.radius1 + args.radius2) =>
    /\ ExpStrictlyBetween(run.probability)
    /\ \A d \in (args.approach.distance + 1)..(MaxDistance + 1) :
         ProbabilityLess(CollisionProbability(EventAtDistance(d), args.radius1, args.radius2),
                         run.probability)

\* the same for pairs with different velocities
C19_MovingPairs ==
  (args.approach.velocity1 # args.approach.velocity2) => C19_StrictlyBetweenAndDecreasing

\* C21: generateDebris is a pure function of its outcome: a second call with the
\* outcome of the run returns the fragments the run returned, whatever the
\* second call draws, and the run leaves outcome and model as they were.
C21_GenerateDebrisIsPure ==
  NasaOutcome =>
    /\ \A r \in RandomPatterns :
         NasaGenerateDebris(run.value.collision, r) = run.value.fragments
    /\ run.value.collision.totalMass = GivenMass(args.object1) + GivenMass(args.object2)
    /\ GetModel(simulator, args.modelName).value.name = "NASA Model"

\* the same with the second call drawing what the first drew
C21_SameDrawsSameFragments ==
  NasaOutcome => NasaGenerateDebris(run.value.collision, args.random) = run.value.fragments

\* C24: in the result of simulateCollision, collision.object1 and
\* collision.object2 carry the noradId and the name of the first and of the
\* second input object.
C24_CollisionNamesItsObjects ==
  (pc = "simulated" /\ ~run.threw) =>
    /\ run.value.collision.object1 =
         [noradId |-> args.object1.noradId, name |-> args.object1.name]
    /\ run.value.collision.object2 =
         [noradId |-> args.object2.noradId, name |-> args.object2.name]

\* the same for the models whose outcome has no object1 and object2 of its own
C24_CustomModelNamesItsObjects ==
  (pc = "simulated" /\ ~run.threw /\ run.value.model = "Custom Model") =>
    C24_CollisionNamesItsObjects

\* C29: the NASA model's generateDebris returns exactly outcome.fragmentCount
\* fragments, the k-th of them (from 0) with the id fragment_k, so that the ids
\* run from fragment_0 to fragment_(fragmentCount - 1) and are all distinct.
C29_FragmentIdsInIndexOrder ==
  NasaOutcome =>
    LET fragments == run.value.fragments
        n == run.value.collision.fragmentCount
    IN /\ Len(fragments) = n
       /\ \A k \in 1..n : fragments[k].id = <<"fragment_", k - 1>>
       /\ \A j, k \in 1..n : j # k => fragments[j].id # fragments[k].id

C29_Witness ==
  /\ NasaOutcome
  /\ run.value.collision.fragmentCount = 20
  /\ Len(run.value.fragments) = 20
  /\ run.value.fragments[20].id = <<"fragment_", 19>>

\* C27: after any sequence of registerModel calls, failing ones included,
\* getModel with no name succeeds and 'nasa' is among listModels(); the default
\* name is still 'nasa', and what it resolves to is the model most recently
\* registered under 'nasa'.
C27_DefaultModelAlwaysThere ==
  /\ ~GetModel(simulator, NoName).threw
  /\ GetModel(simulator, NoName).value = LastRegistered(Name("nasa"))
  /\ Occurrences(ListModels(simulator), Name("nasa")) = 1
  /\ simulator.defaultModel = "nasa"

\* a failed registration under 'nasa', then a replacement of the 'nasa' model
C27_Witness ==
  /\ Len(log) = 3
  /\ log[2].threw /\ log[2].name = Name("nasa")
  /\ log[3].name = Name("nasa") /\ ~log[3].threw
  /\ GetModel(simulator, NoName) = [threw |-> FALSE, value |-> NASACollisionModel(2)]

\* C28: registerModel with an object that is not a BaseCollisionModel throws,
\* and leaves the registry as it was: the same names with the same models, the
\* same default.
C28_RejectedModelLeavesRegistry ==
  [][(Len(log') = Len(log) + 1) =>
       /\ run'.threw <=> ~log'[Len(log')].model.base
       /\ run'.threw =>
            /\ simulator' = simulator
            /\ ListModels(simulator') = ListModels(simulator)
            /\ \A n \in LookupNames : GetModel(simulator', n) = GetModel(simulator, n)]_vars

\* a plain object was offered under a name that is in use
C28_Witness ==
  /\ ~Has(run, "none") /\ run.op = "registerModel" /\ run.threw
  /\ run.name = Name("nasa")
  /\ log[Len(log)].model = PlainObject(4)
  /\ Len(log) >= 3


\* ============================================ properties, departing and dips
\* the distance grows from every sample of the window to the next one
Departing ==
  \A t \in SampleTimes \ {args.startDate} : DistAt(t - StepMs) < DistAt(t)

\* C22: a pair whose distance is strictly increasing over the whole window
\* produces no event, even when its first samples are below the threshold.
C22_DepartingPairNoEvent ==
  (pc = "found" /\ NoFailure /\ NumSamples >= 2 /\ Departing) => run.approaches = <<>>

\* C23: for every pattern of failing samples, no two events are at consecutive
\* sample times, and between any two events there is a sample whose distance is
\* strictly greater than the distance of the earlier event.
C23_OneEventPerDip ==
  pc = "found" =>
    \A e1 \in EventTimes(run.approaches), e2 \in EventTimes(run.approaches) :
      e1 < e2 =>
        /\ e2 # e1 + StepMs
        /\ \E u \in SampleTimes : e1 < u /\ u < e2 /\ OkAt(u) /\ DistAt(u) > DistAt(e1)

C23_Witness ==
  /\ pc = "found"
  /\ Len(run.approaches) >= 2
  /\ run.approaches[1].time + 2 * StepMs = run.approaches[2].time

\* ------------------------------------------ the remembered previous distance
\* the sample at t is handled with r remembered: the look-ahead is asked for
\* when t is below the threshold, nearer than r and not the last sample
LookAheadAsked(t, r) ==
  DistAt(t) < detector.threshold /\ r > DistAt(t) /\ ~LastInRange(t)

\* the sample at t is processed without any propagation failure
ProcessedClean(t, r) == OkAt(t) /\ (LookAheadAsked(t, r) => OkAt(t + StepMs))

RECURSIVE Remembered(_)
\* the distance of the last sample before t that was processed without any
\* propagation failure, infinity if there is none
Remembered(t) ==
  IF t <= args.startDate
  THEN Infinity
  ELSE LET r == Remembered(t - StepMs)
       IN IF ProcessedClean(t - StepMs, r) THEN DistAt(t - StepMs) ELSE r

\* the look-ahead of the sample at t fails although the sample itself propagates
LookAheadFailsAt(t) ==
  OkAt(t) /\ LookAheadAsked(t, Remembered(t)) /\ ~OkAt(t + StepMs)

\* C25: a sample whose look-ahead propagation fails yields no event and is not
\* remembered; the previous distance compared at a sample is the distance of the
\* last earlier sample processed without any propagation failure, infinity if
\* there is none, and this is also what the scan remembers when it ends.
C25_RememberedDistance ==
  pc = "found" =>
    /\ \A t \in SampleTimes : LookAheadFailsAt(t) => ~EventAt(t)
    /\ \A t \in SampleTimes :
         EventAt(t) <=>
           /\ ProcessedClean(t, Remembered(t))
           /\ DistAt(t) < detector.threshold
           /\ Remembered(t) > DistAt(t)
           /\ LastInRange(t) \/ DistAt(t + StepMs) > DistAt(t)
    /\ run.lastDistance = Remembered(args.startDate + NumSamples * StepMs)

C25_Witness ==
  /\ pc = "found"
  /\ \E t \in SampleTimes, u \in SampleTimes :
       /\ LookAheadFailsAt(t)
       /\ t < u
       /\ EventAt(u)
       /\ PrevDist(u) <= DistAt(u)
       /\ PrevDist(u) = DistAt(t)

\* --------------------------- findCloseApproaches, steps of any length >= 1 s
\* stepSeconds of 1 s, 1.5 s and 2.5 s
AnySteps == {1000, 1500, 2500}

InitFindAnyStep ==
  /\ pc = "start"
  /\ detector \in {NewCollisionDetector(t) : t \in Thresholds}
  /\ \E T \in Tables, ref \in {RefSatrec, RefFailing}, e \in EndDates, s \in AnySteps :
       args = [satrec1 |-> ref, satrec2 |-> T,
               startDate |-> 0, endDate |-> e, stepSeconds |-> s]
  /\ run = [none |-> TRUE]
  /\ Idle

NextFindAnyStep == CallFindCloseApproaches

SpecFindAnyStep == InitFindAnyStep /\ [][NextFindAnyStep]_vars

\* C26: for start <= end and stepSeconds >= 1 the loop runs exactly
\* floor((end - start) / stepSeconds) + 1 times, whatever fails: iteration k is
\* at start + (k - 1) * stepSeconds.
C26_IterationCount ==
  pc = "found" =>
    /\ Len(run.visited) = NumSamples
    /\ \A k \in 1..Len(run.visited) : run.visited[k] = args.startDate + (k - 1) * StepMs

\* ============================================== properties, frame of a scan
\* the objects the handler resolves for the request it served last
RequestObjects == ResolveObjects(body.objectIds, debris, 1, <<>>).objects

====
